---- MODULE Spec2Model ----
(***************************************************************************)
(* The task execution agent of agent-container/agent_v2.py                 *)
(* (SecondaryBrainAgent): N agent processes poll one backend task queue,   *)
(* claim a pending task, rebuild its chat history from its task items, run *)
(* the planner loop and report the task completed or failed.               *)
(*                                                                         *)
(* Modelling conventions.                                                  *)
(*  - A JSON object returned by the backend is a one-element sequence      *)
(*    holding a record, a JSON list is a sequence of records, and both {}  *)
(*    and [] are the empty sequence: Python treats both as false.          *)
(*  - A string is a sequence of tokens; the empty string is <<>>.          *)
(*  - A createdAt timestamp is a positive integer; an item that has no     *)
(*    createdAt sorts under the key '' (line 103), modelled as 0, which is *)
(*    below every timestamp.                                               *)
(*  - Every backend request is one atomic step. A write has three          *)
(*    outcomes: "ok" (applied, response delivered), "lost_req" (the        *)
(*    request never reached the backend or was answered with an error      *)
(*    status before being applied) and "lost_resp" (applied, but the       *)
(*    response was lost or undecodable).  A read is "ok" or "fail".        *)
(*  - An exception that is no RequestException may escape at a statement   *)
(*    of claim_task before its PUT and at a statement of                   *)
(*    execute_planner_loop up to the completion PUT (action Raise).        *)
(***************************************************************************)
EXTENDS Integers, Sequences, FiniteSets, TLC

VARIABLES
    tasks,          \* backend: task id -> [status, containerId], for the project's tasks
    items,          \* backend: task id -> sequence of task items, in creation order
    pc,             \* agent -> position in run()
    current_task,   \* agent -> self.current_task (a task id, or NoTask)
    task,           \* agent -> the local `task` of run() / execute_planner_loop
    task_list,      \* agent -> the local `tasks` of claim_task: the fetched list
    idx,            \* agent -> position of claim_task's for loop in task_list
    task_items,     \* agent -> local task_items of execute_planner_loop
    chat_history,   \* agent -> local chat_history of execute_planner_loop
    trace,          \* agent -> requests, raises and sleeps of the current loop iteration
    accepted,       \* task -> {<<agent, delivered>>}: claim updates the backend accepted
    tried,          \* task -> agents that issued a claim update for it
    executors,      \* task -> agents that entered execute_planner_loop for it
    reporters,      \* task -> agents that issued a completed/failed update for it
    faults,         \* the number of failed requests and escaped exceptions so far
    chatItems,      \* build_chat_history harness: the input list, in its current order
    chatOrig,       \* build_chat_history harness: the input list, in its first order
    chatFirst,      \* build_chat_history harness: the output for the first order
    chatOut,        \* build_chat_history harness: the output of the latest call
    chatPc,         \* build_chat_history harness: "input" | "built"
    kind,           \* process start: the program the process runs, or "none"
    env,            \* process start: the environment variables of the process
    tpc,            \* process start / TaskAgent: position in the program
    project_id,     \* TaskAgent: self.project_id
    pending_tasks,  \* TaskAgent: the local `tasks` of run(): ids of the pending tasks
    tnext,          \* TaskAgent: position of run()'s for loop in pending_tasks
    titems,         \* TaskAgent: the local task_items of execute_task
    tidx,           \* TaskAgent: position of execute_task's for loop in titems
    files,          \* TaskAgent: the workspace, file path -> content
    tlog,           \* process: its requests, dispatches, file writes, script runs, exit
    container       \* backend: the status and exit code of the process's container

agentVars == <<tasks, items, pc, current_task, task, task_list, idx, task_items, chat_history,
               trace, accepted, tried, executors, reporters, faults>>
chatVars == <<chatItems, chatOrig, chatFirst, chatOut, chatPc>>
procVars == <<kind, env, tpc, project_id, pending_tasks, tnext, titems, tidx, files, tlog,
              container>>
loopVars == <<pc, current_task, task, task_list, idx, task_items, chat_history, trace,
              accepted, tried, executors, reporters>>
vars == <<tasks, items, pc, current_task, task, task_list, idx, task_items, chat_history,
          trace, accepted, tried, executors, reporters, faults,
          chatItems, chatOrig, chatFirst, chatOut, chatPc,
          kind, env, tpc, project_id, pending_tasks, tnext, titems, tidx, files, tlog,
          container>>

-----------------------------------------------------------------------------
(* Bounds *)

NumAgents == 2
NumTasks == 2
MaxChatItems == 2
MaxFaults == 2
MaxContentLen == 4
MaxTaskItems == 2

(* Program constants *)

IDLE_SLEEP == 30
ERROR_SLEEP == 60

Agents == 1..NumAgents
TaskIds == 1..NumTasks
NoTask == 0
NoContainer == 0
Empty == <<>>

WriteOutcomes == {"ok", "lost_req", "lost_resp"}
ReadOutcomes == {"ok", "fail"}

-----------------------------------------------------------------------------
(* Task items and chat messages *)

Item(type, title, content, chatResponse, toolName, createdAt) ==
    [type |-> type, title |-> title, content |-> content,
     chatResponse |-> chatResponse, toolName |-> toolName,
     toolParameters |-> <<>>, toolResponse |-> <<>>, createdAt |-> createdAt]

Message(role, content, tool_calls) ==
    [role |-> role, content |-> content, tool_calls |-> tool_calls]

\* key=lambda x: x.get('createdAt', '')
SortKey(item) == item.createdAt

\* Insertion of x after every element whose key is <= its own.
RECURSIVE InsertSorted(_, _)
InsertSorted(x, s) ==
    IF s = <<>> THEN <<x>>
    ELSE IF SortKey(Head(s)) <= SortKey(x) THEN <<Head(s)>> \o InsertSorted(x, Tail(s))
    ELSE <<x>> \o s

UnsortedItems(s) == s

\* sorted(task_items, key=...): ascending by key, stable (equal keys keep input order).
RECURSIVE sorted(_)
sorted(s) ==
    IF s = <<>> THEN <<>>
    ELSE InsertSorted(s[Len(s)], sorted(SubSeq(s, 1, Len(s) - 1)))

ItemMessagesElif(item) ==
    IF item.type = "planning" /\ item.content # Empty
    THEN <<Message("user", item.content, <<>>)>>
    ELSE IF item.chatResponse # Empty
    THEN <<Message("assistant", item.chatResponse, <<>>)>>
    ELSE <<>>

ItemMessagesToolFirst(item) ==
    (IF item.toolName # Empty
     THEN <<Message("assistant", <<"I'll use the">> \o item.toolName \o <<"tool.">>,
                    <<[name |-> item.toolName, parameters |-> item.toolParameters,
                       response |-> item.toolResponse]>>)>>
     ELSE <<>>)
    \o (IF item.type = "planning" /\ item.content # Empty
        THEN <<Message("user", item.content, <<>>)>> ELSE <<>>)
    \o (IF item.chatResponse # Empty
        THEN <<Message("assistant", item.chatResponse, <<>>)>> ELSE <<>>)

\* The messages one item contributes, in the order the three ifs append them.
ItemMessages(item) ==
    (IF item.type = "planning" /\ item.content # Empty
     THEN <<Message("user", item.content, <<>>)>> ELSE <<>>)
    \o (IF item.chatResponse # Empty
        THEN <<Message("assistant", item.chatResponse, <<>>)>> ELSE <<>>)
    \o (IF item.toolName # Empty
        THEN <<Message("assistant", <<"I'll use the">> \o item.toolName \o <<"tool.">>,
                       <<[name |-> item.toolName, parameters |-> item.toolParameters,
                          response |-> item.toolResponse]>>)>>
        ELSE <<>>)

RECURSIVE Expand(_)
Expand(s) == IF s = <<>> THEN <<>> ELSE ItemMessages(Head(s)) \o Expand(Tail(s))

build_chat_history(its) == Expand(sorted(its))

-----------------------------------------------------------------------------
(* The backend (its code is not part of the agent container): the task     *)
(* update is atomic, and an update that sets the owning container is       *)
(* conditional on the task being pending and unowned.                      *)

TaskTitle(t) == "task-" \o ToString(t)
TaskDescription(t) == "description-" \o ToString(t)

\* The JSON of one task as the backend returns it.
TaskJson(t, rec) ==
    [id |-> t, title |-> TaskTitle(t), description |-> TaskDescription(t),
     status |-> rec.status, containerId |-> rec.containerId]

\* GET /api/projects/{PROJECT_ID}/tasks
TaskListJson == [t \in DOMAIN tasks |-> TaskJson(t, tasks[t])]

IsClaimUpdate(data) == data.containerId # NoContainer

BackendAccepts(rec, data) ==
    IsClaimUpdate(data) => (rec.status = "pending" /\ rec.containerId = NoContainer)

\* PUT /api/tasks/{id}: the fields of data overwrite those of the record.
BackendPut(rec, data) ==
    IF ~BackendAccepts(rec, data) THEN rec
    ELSE [status |-> data.status,
          containerId |-> IF IsClaimUpdate(data) THEN data.containerId ELSE rec.containerId]

\* POST /api/tasks/{id}/items: the backend stamps the item with its creation time.
BackendPost(its, item) == Append(its, [item EXCEPT !.createdAt = Len(its) + 1])

-----------------------------------------------------------------------------
(* make_api_request *)

CaughtNothing(out) == FALSE

\* except requests.exceptions.RequestException: transport failures and error
\* statuses (raise_for_status) are all RequestExceptions.
Caught(out) == out \in {"fail", "lost_req", "lost_resp", "rejected"}

\* What the call hands to its caller: the decoded JSON, {} after a caught
\* exception, or the exception itself.
make_api_request(out, resp) ==
    [raised |-> out # "ok" /\ ~Caught(out),
     json |-> IF out = "ok" THEN resp ELSE Empty]

\* The outcomes a request may have: failures are drawn from a budget of MaxFaults.
WriteOuts == IF faults < MaxFaults THEN WriteOutcomes ELSE {"ok"}
ReadOuts == IF faults < MaxFaults THEN ReadOutcomes ELSE {"ok"}
Spend(out) == faults' = IF out = "ok" THEN faults ELSE faults + 1

\* Whether the request changes the backend.
Reached(out) == out \in {"ok", "lost_resp"}

Ev(ev, t, out, body) == [ev |-> ev, task |-> t, out |-> out, body |-> body]

Log(a, evs) == trace' = [trace EXCEPT ![a] = @ \o evs]

RaiseEv(a) == Ev("raise", current_task[a], "", <<>>)

-----------------------------------------------------------------------------
(* claim_task *)

IsCandidateUnfiltered(tj) == TRUE

\* if task.get('status') == 'pending' and not task.get('containerId')
IsCandidate(tj) == tj.status = "pending" /\ tj.containerId = NoContainer

\* The first position at or after `from` the for loop issues a claim for; 0 if none.
NextCandidate(list, from) ==
    LET C == {i \in from..Len(list) : IsCandidate(list[i])}
    IN  IF C = {} THEN 0 ELSE CHOOSE i \in C : \A j \in C : i <= j

\* update_data
ClaimData(a) == [status |-> "running", containerId |-> a]

ClaimResultUnchecked(result, tj) == <<tj>>

\* if result: return result (lines 82-84). What claim_task returns after the update
\* of the candidate tj: the response, or nothing yet (the for loop goes on) when the
\* response is empty.
ClaimResult(result, tj) == result

AfterFailedClaimStop(list, i) == Len(list) + 1

\* The loop position after a claim that did not succeed: the for loop goes on with
\* the next element of the fetched list.
AfterFailedClaim(list, i) == i + 1

-----------------------------------------------------------------------------
(* execute_planner_loop *)

InitialContentNoTitle(t) ==
    <<"Task:", "Description:", TaskDescription(t),
      "Please analyze this task and create a plan for execution.">>

InitialContent(t) ==
    <<"Task:", TaskTitle(t), "Description:", TaskDescription(t),
      "Please analyze this task and create a plan for execution.">>

\* planning_item
PlanningItem(t) ==
    Item("planning", "Initial Task Analysis", InitialContent(t), Empty, Empty, 0)

generate_planner_response(history, t) ==
    <<"I've analyzed the task", TaskTitle(t), "Description:", TaskDescription(t),
      "Based on the chat history", ToString(Len(history)), "messages",
      "This is a placeholder response.">>

\* response_item
ResponseItem(history, t) ==
    Item("planning", "Planner Response", <<"Agent analysis and planning">>,
         generate_planner_response(history, t), Empty, 0)

NeedsInitialByHistory(its, history) == history = Empty

\* if not task_items:
NeedsInitial(its, history) == its = Empty

HistoryAlwaysNonEmpty(history) == TRUE

\* if chat_history: (line 171)
HistoryNonEmpty(history) == history # Empty

\* completion_data
CompletionData == [status |-> "completed", containerId |-> NoContainer]

FailureData == [status |-> "failed", containerId |-> NoContainer]

-----------------------------------------------------------------------------
(* run *)

TaskAfterExecuteKept(t) == t

\* self.current_task after execute_planner_loop returned (line 281)
TaskAfterExecute(t) == NoTask

PcAfterExecuteSleeps == "idle_sleep"

\* Where run() continues after execute_planner_loop returned: the top of the loop.
PcAfterExecute == "claim"

HandlerNeverReports(cur) == FALSE

\* if self.current_task: (line 288)
HandlerReports(cur) == cur # NoTask

\* The statements at which an exception may escape to run()'s handler.
ExecPcs == {"get_items", "init_item", "planner", "complete"}
FaultPcs == {"scan"} \cup ExecPcs

-----------------------------------------------------------------------------
(* Actions of one agent *)

\* claim_task, lines 64-67: fetch the task list. A new loop iteration begins.
FetchTasks(a) ==
    /\ pc[a] = "claim"
    /\ \E out \in ReadOuts :
         LET r == make_api_request(out, TaskListJson)
             e == Ev("GET_tasks", NoTask, out, r.json)
         IN  /\ Spend(out)
             /\ IF r.raised
                THEN /\ trace' = [trace EXCEPT ![a] = <<e, RaiseEv(a)>>]
                     /\ pc' = [pc EXCEPT ![a] = "handler"]
                     /\ UNCHANGED <<task_list, idx>>
                ELSE IF r.json = Empty
                THEN /\ trace' = [trace EXCEPT ![a] = <<e, Ev("return", NoTask, "", <<>>)>>]
                     /\ pc' = [pc EXCEPT ![a] = "idle_sleep"]
                     /\ UNCHANGED <<task_list, idx>>
                ELSE /\ trace' = [trace EXCEPT ![a] = <<e>>]
                     /\ pc' = [pc EXCEPT ![a] = "scan"]
                     /\ task_list' = [task_list EXCEPT ![a] = r.json]
                     /\ idx' = [idx EXCEPT ![a] = 1]
    /\ UNCHANGED <<tasks, items, current_task, task, task_items, chat_history,
                   accepted, tried, executors, reporters, chatVars, procVars>>

\* claim_task, lines 70-86: the claim update for the next candidate of the fetched
\* list. A returned task is true in run's test (line 278): run sets current_task
\* and enters execute_planner_loop (lines 279-280).
ClaimPut(a) ==
    /\ pc[a] = "scan"
    /\ NextCandidate(task_list[a], idx[a]) # 0
    /\ \E out \in WriteOuts :
         LET i == NextCandidate(task_list[a], idx[a])
             t == task_list[a][i].id
             data == ClaimData(a)
             acc == Reached(out) /\ BackendAccepts(tasks[t], data)
             rec == IF Reached(out) THEN BackendPut(tasks[t], data) ELSE tasks[t]
             eff == IF Reached(out) /\ ~acc THEN "rejected" ELSE out
             r == make_api_request(eff, <<TaskJson(t, rec)>>)
             res == ClaimResult(r.json, task_list[a][i])
             e == Ev("PUT_task", t, eff, <<data>>)
         IN  /\ Spend(out)
             /\ tasks' = [tasks EXCEPT ![t] = rec]
             /\ accepted' = IF acc THEN [accepted EXCEPT ![t] = @ \cup {<<a, out = "ok">>}]
                            ELSE accepted
             /\ tried' = [tried EXCEPT ![t] = @ \cup {a}]
             /\ IF r.raised
                THEN /\ Log(a, <<e, RaiseEv(a)>>)
                     /\ pc' = [pc EXCEPT ![a] = "handler"]
                     /\ task_list' = [task_list EXCEPT ![a] = <<>>]
                     /\ idx' = [idx EXCEPT ![a] = 0]
                     /\ UNCHANGED <<task, current_task, executors>>
                ELSE IF res = Empty
                THEN /\ Log(a, <<e>>)
                     /\ idx' = [idx EXCEPT ![a] = AfterFailedClaim(task_list[a], i)]
                     /\ UNCHANGED <<pc, task_list, task, current_task, executors>>
                ELSE /\ Log(a, <<e, Ev("return", res[1].id, "", <<>>)>>)
                     /\ pc' = [pc EXCEPT ![a] = "get_items"]
                     /\ task_list' = [task_list EXCEPT ![a] = <<>>]
                     /\ idx' = [idx EXCEPT ![a] = 0]
                     /\ task' = [task EXCEPT ![a] = res[1].id]
                     /\ current_task' = [current_task EXCEPT ![a] = res[1].id]
                     /\ executors' = [executors EXCEPT ![res[1].id] = @ \cup {a}]
    /\ UNCHANGED <<items, task_items, chat_history, reporters, chatVars, procVars>>

\* claim_task, line 88: the for loop is exhausted; run, lines 282-283.
ScanDone(a) ==
    /\ pc[a] = "scan"
    /\ NextCandidate(task_list[a], idx[a]) = 0
    /\ Log(a, <<Ev("return", NoTask, "", <<>>)>>)
    /\ pc' = [pc EXCEPT ![a] = "idle_sleep"]
    /\ task_list' = [task_list EXCEPT ![a] = <<>>]
    /\ idx' = [idx EXCEPT ![a] = 0]
    /\ UNCHANGED <<tasks, items, current_task, task, task_items, chat_history,
                   accepted, tried, executors, reporters, faults, chatVars, procVars>>

\* execute_planner_loop, lines 146-153: fetch the items, build the history.
GetItems(a) ==
    /\ pc[a] = "get_items"
    /\ \E out \in ReadOuts :
         LET t == task[a]
             r == make_api_request(out, items[t])
             hist == build_chat_history(r.json)
             e == Ev("GET_items", t, out, r.json)
         IN  /\ Spend(out)
             /\ IF r.raised
                THEN /\ Log(a, <<e, RaiseEv(a)>>)
                     /\ pc' = [pc EXCEPT ![a] = "handler"]
                     /\ UNCHANGED <<task_items, chat_history>>
                ELSE /\ Log(a, <<e>>)
                     /\ task_items' = [task_items EXCEPT ![a] = r.json]
                     /\ chat_history' = [chat_history EXCEPT ![a] = hist]
                     /\ pc' = [pc EXCEPT ![a] =
                                 IF NeedsInitial(r.json, hist) THEN "init_item" ELSE "planner"]
    /\ UNCHANGED <<tasks, items, current_task, task, task_list, idx,
                   accepted, tried, executors, reporters, chatVars, procVars>>

\* execute_planner_loop, lines 154-168: create the initial planning item.
CreateInitial(a) ==
    /\ pc[a] = "init_item"
    /\ \E out \in WriteOuts :
         LET t == task[a]
             its == IF Reached(out) THEN BackendPost(items[t], PlanningItem(t)) ELSE items[t]
             r == make_api_request(out, <<PlanningItem(t)>>)
             e == Ev("POST_item", t, out, <<PlanningItem(t)>>)
         IN  /\ Spend(out)
             /\ items' = [items EXCEPT ![t] = its]
             /\ Log(a, <<e>>)
             /\ chat_history' = [chat_history EXCEPT ![a] =
                    IF r.json # Empty
                    THEN Append(@, Message("user", InitialContent(t), <<>>)) ELSE @]
             /\ pc' = [pc EXCEPT ![a] = "planner"]
    /\ UNCHANGED <<tasks, current_task, task, task_list, idx, task_items,
                   accepted, tried, executors, reporters, chatVars, procVars>>

\* execute_planner_loop, lines 171-184: the history is not empty; the planner is
\* consulted and its response is persisted.
PlannerRespond(a) ==
    /\ pc[a] = "planner"
    /\ HistoryNonEmpty(chat_history[a])
    /\ \E out \in WriteOuts :
         LET t == task[a]
             item == ResponseItem(chat_history[a], t)
             its == IF Reached(out) THEN BackendPost(items[t], item) ELSE items[t]
             e == Ev("POST_item", t, out, <<item>>)
         IN  /\ Spend(out)
             /\ items' = [items EXCEPT ![t] = its]
             /\ Log(a, <<Ev("planner", t, "", <<>>), e>>)
    /\ pc' = [pc EXCEPT ![a] = "complete"]
    /\ UNCHANGED <<tasks, current_task, task, task_list, idx, task_items, chat_history,
                   accepted, tried, executors, reporters, chatVars, procVars>>

\* execute_planner_loop, line 171: the history is empty; nothing is done.
PlannerSkip(a) ==
    /\ pc[a] = "planner"
    /\ ~HistoryNonEmpty(chat_history[a])
    /\ pc' = [pc EXCEPT ![a] = "complete"]
    /\ UNCHANGED <<tasks, items, current_task, task, task_list, idx, task_items,
                   chat_history, trace, accepted, tried, executors, reporters, faults, chatVars, procVars>>

\* execute_planner_loop, lines 187-193: report the task completed; run, line 281.
Complete(a) ==
    /\ pc[a] = "complete"
    /\ \E out \in WriteOuts :
         LET t == task[a]
             rec == IF Reached(out) THEN BackendPut(tasks[t], CompletionData) ELSE tasks[t]
         IN  /\ Spend(out)
             /\ tasks' = [tasks EXCEPT ![t] = rec]
             /\ Log(a, <<Ev("PUT_task", t, out, <<CompletionData>>)>>)
             /\ reporters' = [reporters EXCEPT ![t] = @ \cup {a}]
             /\ current_task' = [current_task EXCEPT ![a] = TaskAfterExecute(t)]
    /\ pc' = [pc EXCEPT ![a] = PcAfterExecute]
    /\ task' = [task EXCEPT ![a] = NoTask]
    /\ task_items' = [task_items EXCEPT ![a] = <<>>]
    /\ chat_history' = [chat_history EXCEPT ![a] = <<>>]
    /\ UNCHANGED <<items, task_list, idx, accepted, tried, executors, chatVars, procVars>>

\* An exception escapes claim_task or execute_planner_loop; run, line 286.
Raise(a) ==
    /\ pc[a] \in FaultPcs
    /\ faults < MaxFaults
    /\ faults' = faults + 1
    /\ Log(a, <<RaiseEv(a)>>)
    /\ pc' = [pc EXCEPT ![a] = "handler"]
    /\ task' = [task EXCEPT ![a] = NoTask]
    /\ task_list' = [task_list EXCEPT ![a] = <<>>]
    /\ idx' = [idx EXCEPT ![a] = 0]
    /\ task_items' = [task_items EXCEPT ![a] = <<>>]
    /\ chat_history' = [chat_history EXCEPT ![a] = <<>>]
    /\ UNCHANGED <<tasks, items, current_task, accepted, tried, executors, reporters,
                   chatVars, procVars>>

\* run, lines 288-293: the handler reports the in-flight task failed.
HandlerReport(a) ==
    /\ pc[a] = "handler"
    /\ HandlerReports(current_task[a])
    /\ \E out \in WriteOuts :
         LET t == current_task[a]
             rec == IF Reached(out) THEN BackendPut(tasks[t], FailureData) ELSE tasks[t]
         IN  /\ Spend(out)
             /\ tasks' = [tasks EXCEPT ![t] = rec]
             /\ Log(a, <<Ev("PUT_task", t, out, <<FailureData>>)>>)
             /\ reporters' = [reporters EXCEPT ![t] = @ \cup {a}]
    /\ current_task' = [current_task EXCEPT ![a] = NoTask]
    /\ pc' = [pc EXCEPT ![a] = "error_sleep"]
    /\ UNCHANGED <<items, task, task_list, idx, task_items, chat_history,
                   accepted, tried, executors, chatVars, procVars>>

\* run, line 288: no task is in flight.
HandlerNoTask(a) ==
    /\ pc[a] = "handler"
    /\ ~HandlerReports(current_task[a])
    /\ pc' = [pc EXCEPT ![a] = "error_sleep"]
    /\ UNCHANGED <<tasks, items, current_task, task, task_list, idx, task_items,
                   chat_history, trace, accepted, tried, executors, reporters, faults, chatVars, procVars>>

PcAfterSleepExits == "exited"

\* run, line 273: 'while True' has no exit; after either sleep the loop body starts
\* again with claim_task.
PcAfterSleep == "claim"

\* run, line 284: time.sleep(30)
IdleSleep(a) ==
    /\ pc[a] = "idle_sleep"
    /\ Log(a, <<Ev("sleep", NoTask, "", <<IDLE_SLEEP>>)>>)
    /\ pc' = [pc EXCEPT ![a] = PcAfterSleep]
    /\ UNCHANGED <<tasks, items, current_task, task, task_list, idx, task_items,
                   chat_history, accepted, tried, executors, reporters, faults, chatVars, procVars>>

\* run, line 295: time.sleep(60)
ErrorSleep(a) ==
    /\ pc[a] = "error_sleep"
    /\ Log(a, <<Ev("sleep", NoTask, "", <<ERROR_SLEEP>>)>>)
    /\ pc' = [pc EXCEPT ![a] = PcAfterSleep]
    /\ UNCHANGED <<tasks, items, current_task, task, task_list, idx, task_items,
                   chat_history, accepted, tried, executors, reporters, faults, chatVars, procVars>>

-----------------------------------------------------------------------------
(* The system: every task pending and unowned, with no item or one persisted item. *)
(* The tasks differ in what they hold: in each initial state task t holds the      *)
(* (t + k)-th of the three item lists, for one k.                                  *)

\* A persisted planning item with content, and a persisted item that yields no message.
PersistedPlanning == Item("planning", "Note", <<"X">>, Empty, Empty, 1)
PersistedFile == Item("file_creation", "File", Empty, Empty, Empty, 1)

PersistedLists == <<<<>>, <<PersistedPlanning>>, <<PersistedFile>>>>

\* No process is being started: the agents of the loop are already running.
ProcIdle ==
    /\ kind = "none"
    /\ env = <<>>
    /\ tpc = "none"
    /\ project_id = <<>>
    /\ pending_tasks = <<>>
    /\ tnext = 0
    /\ titems = <<>>
    /\ tidx = 0
    /\ files = <<>>
    /\ tlog = <<>>
    /\ container = <<>>

AgentInit ==
    /\ pc = [a \in Agents |-> "claim"]
    /\ current_task = [a \in Agents |-> NoTask]
    /\ task = [a \in Agents |-> NoTask]
    /\ task_list = [a \in Agents |-> <<>>]
    /\ idx = [a \in Agents |-> 0]
    /\ task_items = [a \in Agents |-> <<>>]
    /\ chat_history = [a \in Agents |-> <<>>]
    /\ trace = [a \in Agents |-> <<>>]
    /\ accepted = [t \in TaskIds |-> {}]
    /\ tried = [t \in TaskIds |-> {}]
    /\ executors = [t \in TaskIds |-> {}]
    /\ reporters = [t \in TaskIds |-> {}]
    /\ faults = 0

PendingTasks(n) == [t \in 1..n |-> [status |-> "pending", containerId |-> NoContainer]]

\* The project holds NumTasks tasks, or none at all.
Init ==
    /\ AgentInit
    /\ tasks \in {PendingTasks(0), PendingTasks(NumTasks)}
    /\ \E k \in 1..Len(PersistedLists) :
          items = [t \in TaskIds |-> PersistedLists[((t + k) % Len(PersistedLists)) + 1]]
    /\ chatItems = <<>>
    /\ chatOrig = <<>>
    /\ chatFirst = <<>>
    /\ chatOut = <<>>
    /\ chatPc = "input"
    /\ ProcIdle

Next ==
    \E a \in Agents :
        \/ FetchTasks(a)
        \/ ClaimPut(a)
        \/ ScanDone(a)
        \/ GetItems(a)
        \/ CreateInitial(a)
        \/ PlannerRespond(a)
        \/ PlannerSkip(a)
        \/ Complete(a)
        \/ Raise(a)
        \/ HandlerReport(a)
        \/ HandlerNoTask(a)
        \/ IdleSleep(a)
        \/ ErrorSleep(a)

Spec == Init /\ [][Next]_vars

\* The steps of one agent process.
AgentNext(a) ==
    \/ FetchTasks(a)
    \/ ClaimPut(a)
    \/ ScanDone(a)
    \/ GetItems(a)
    \/ CreateInitial(a)
    \/ PlannerRespond(a)
    \/ PlannerSkip(a)
    \/ Complete(a)
    \/ Raise(a)
    \/ HandlerReport(a)
    \/ HandlerNoTask(a)
    \/ IdleSleep(a)
    \/ ErrorSleep(a)

\* No agent process is terminated from outside: every agent takes its next step
\* whenever it has one, and every request it issues returns (with a response or
\* with a failure).
SpecFair == Init /\ [][Next]_vars /\ \A a \in Agents : WF_vars(AgentNext(a))

\* At least one agent process keeps running: some step of some agent is taken
\* whenever one is possible. Failed requests and exceptions are drawn from the
\* budget of MaxFaults, so from some point on every request succeeds.
SpecLive == Init /\ [][Next]_vars /\ WF_vars(Next)

-----------------------------------------------------------------------------
(* build_chat_history on its own: a list of items is drawn, the history is  *)
(* built, the list is reordered and the history is built again.             *)

ChatPool ==
    {Item(ty, "Item", c, r, tn, at) :
        ty \in {"planning", "file_creation"}, c \in {Empty, <<"X">>},
        r \in {Empty, <<"Y">>}, tn \in {Empty, <<"T">>}, at \in 0..MaxChatItems}

ChatInputs == UNION {[1..n -> ChatPool] : n \in 0..MaxChatItems}

Swap(s, i) == [j \in 1..Len(s) |-> IF j = i THEN s[i + 1] ELSE IF j = i + 1 THEN s[i] ELSE s[j]]

InitChat ==
    /\ AgentInit
    /\ tasks = PendingTasks(NumTasks)
    /\ items = [t \in TaskIds |-> <<>>]
    /\ chatItems \in ChatInputs
    /\ chatOrig = chatItems
    /\ chatFirst = <<>>
    /\ chatOut = <<>>
    /\ chatPc = "input"
    /\ ProcIdle

\* chat_history = self.build_chat_history(task_items)
ChatBuild ==
    /\ chatPc \in {"input", "reordered"}
    /\ chatOut' = build_chat_history(chatItems)
    /\ chatFirst' = IF chatPc = "input" THEN build_chat_history(chatItems) ELSE chatFirst
    /\ chatPc' = "built"
    /\ UNCHANGED <<chatItems, chatOrig, agentVars, procVars>>

\* The same items are handed over in another order.
ChatReorder ==
    /\ chatPc = "built"
    /\ \E i \in 1..(Len(chatItems) - 1) : chatItems' = Swap(chatItems, i)
    /\ chatOut' = <<>>
    /\ chatPc' = "reordered"
    /\ UNCHANGED <<chatOrig, chatFirst, agentVars, procVars>>

NextChat == ChatBuild \/ ChatReorder

SpecChat == InitChat /\ [][NextChat]_vars

-----------------------------------------------------------------------------
(* The start of a process and the one-shot TaskAgent of agent-container/agent.py: *)
(* the process reads its environment, TaskAgent sets up the workspace, executes   *)
(* every pending task of the project item by item and reports its container.      *)
(* A file path and a file content are sequences of characters.                    *)

BS == "backslash"
NL == "newline"
Alphabet == {BS, "n", NL, "x"}

Contents == UNION {[1..n -> Alphabet] : n \in 0..MaxContentLen}

NoPath == <<>>
TxtPath == <<"a", ".", "t", "x", "t">>
PyPath == <<"r", ".", "p", "y">>
RepoPath == <<"r", "e", "p", "o">>

\* A task item as the TaskAgent reads it.
FileItem(type, filePath, fileContent) ==
    [type |-> type, title |-> "Item", content |-> <<"X">>,
     filePath |-> filePath, fileContent |-> fileContent]

\* str.endswith
endswith(p, suffix) ==
    Len(p) >= Len(suffix) /\ SubSeq(p, Len(p) - Len(suffix) + 1, Len(p)) = suffix

\* str.replace with a count of 1: only the first occurrence.
RECURSIVE replace_first(_, _, _)
replace_first(str, old, new) ==
    IF Len(str) < Len(old) THEN str
    ELSE IF SubSeq(str, 1, Len(old)) = old
    THEN new \o SubSeq(str, Len(old) + 1, Len(str))
    ELSE <<Head(str)>> \o replace_first(Tail(str), old, new)

\* str.replace(old, new): the occurrences of old are found from the left, each
\* search starting behind the previous occurrence.
RECURSIVE replace(_, _, _)
replace(str, old, new) ==
    IF Len(str) < Len(old) THEN str
    ELSE IF SubSeq(str, 1, Len(old)) = old
    THEN new \o replace(SubSeq(str, Len(old) + 1, Len(str)), old, new)
    ELSE <<Head(str)>> \o replace(Tail(str), old, new)

UnescapeFirstOnly(file_content) == replace_first(file_content, <<BS, "n">>, <<NL>>)

\* content = file_content.replace('\\n', '\n')
Unescape(file_content) == replace(file_content, <<BS, "n">>, <<NL>>)

\* open(full_path, 'w'); f.write(content): the file holds exactly the content.
WriteFile(fs, path, content) ==
    [q \in (DOMAIN fs) \cup {path} |-> IF q = path THEN content ELSE fs[q]]

HasPathAlways(item) == TRUE

\* if not file_path: return (agent.py, lines 260-262)
HasPath(item) == item.filePath # NoPath

\* if file_path.endswith('.py')
IsScript(path) == endswith(path, <<".", "p", "y">>)

ScriptResults == {0, 256}

ScriptFailureRaises(result) == result # 0

\* Lines 283-286: both branches only print; a nonzero result raises nothing.
ScriptRaises(result) == FALSE

\* agent.py make_api_request: the decoded JSON, or None after a RequestException.
api_request(out, resp) == IF out = "ok" THEN resp ELSE Empty

\* update_data of update_task_status
StatusData(status) == [status |-> status, containerId |-> NoContainer]

\* The environment a process may be started in. TaskAgent reads JWT_TOKEN and
\* CONTAINER_ID, SecondaryBrainAgent reads JWT_SECRET, PROJECT_ID and CONTAINER_ID.
TokenValues == {"unset", "malformed", "no_project_id", "valid"}
Environments ==
    [JWT_TOKEN : TokenValues, JWT_SECRET : {"unset", "set"},
     PROJECT_ID : {"unset", "set"}, CONTAINER_ID : {"unset", "set"}]

EnvironmentsOf(k) ==
    IF k = "TaskAgent"
    THEN {e \in Environments : e.JWT_SECRET = "unset" /\ e.PROJECT_ID = "unset"}
    ELSE {e \in Environments : e.JWT_TOKEN = "unset"}

\* jwt.decode(token, options={"verify_signature": False}) and payload.get('project_id')
Decode(token) ==
    [raised |-> token = "malformed",
     project_id |-> IF token = "valid" THEN <<"project">> ELSE <<>>]

\* TaskAgent.__init__, lines 21-34: the constructor raises ValueError unless the
\* token and the container id are set and the token decodes to a project id.
InitRaises(e) ==
    \/ e.JWT_TOKEN = "unset"
    \/ e.CONTAINER_ID = "unset"
    \/ Decode(e.JWT_TOKEN).raised
    \/ Decode(e.JWT_TOKEN).project_id = <<>>

\* GET /api/projects/{project_id}/repositories
Repositories == <<[name |-> RepoPath]>>

TLog(evs) == tlog' = tlog \o evs

ExitEv(code) == Ev("exit", NoTask, "", <<code>>)

\* The requests the process has issued to the backend.
IsRequestEv(e) ==
    e.ev \in {"GET_repos", "GET_tasks", "GET_items", "PATCH_task", "PATCH_container"}

\* agent = TaskAgent(): __init__, lines 14-39. A ValueError ends the process.
TaskAgentInit ==
    /\ kind = "TaskAgent"
    /\ tpc = "start"
    /\ IF InitRaises(env)
       THEN /\ TLog(<<Ev("raise", NoTask, "", <<>>), ExitEv(1)>>)
            /\ tpc' = "exited"
            /\ UNCHANGED project_id
       ELSE /\ project_id' = Decode(env.JWT_TOKEN).project_id
            /\ tpc' = "setup"
            /\ UNCHANGED tlog
    /\ UNCHANGED <<kind, env, pending_tasks, tnext, titems, tidx, files, container,
                   tasks, items, faults, loopVars, chatVars>>

\* run, line 310: setup_workspace (lines 153-181). The repositories are fetched and
\* cloned; a failed clone is caught (line 134), an error of mkdir is not.
SetupWorkspace ==
    /\ kind = "TaskAgent"
    /\ tpc = "setup"
    /\ \/ /\ faults < MaxFaults
          /\ faults' = faults + 1
          /\ TLog(<<Ev("raise", NoTask, "", <<>>)>>)
          /\ tpc' = "container_failed"
          /\ UNCHANGED files
       \/ \E out \in ReadOuts : \E cloned \in BOOLEAN :
            LET repos == api_request(out, Repositories)
            IN  /\ Spend(out)
                /\ TLog(<<Ev("GET_repos", NoTask, out, repos)>>)
                /\ files' = IF repos # Empty /\ cloned
                            THEN WriteFile(files, repos[1].name, <<"git">>) ELSE files
                /\ tpc' = "fetch"
    /\ UNCHANGED <<kind, env, project_id, pending_tasks, tnext, titems, tidx, container,
                   tasks, items, loopVars, chatVars>>

\* run, line 314: get_project_tasks (lines 183-198): the pending tasks of the list.
GetProjectTasks ==
    /\ kind = "TaskAgent"
    /\ tpc = "fetch"
    /\ \E out \in ReadOuts :
         LET list == api_request(out, TaskListJson)
             pending == SelectSeq(list, LAMBDA tj : tj.status = "pending")
         IN  /\ Spend(out)
             /\ TLog(<<Ev("GET_tasks", NoTask, out, list)>>)
             /\ pending_tasks' = [k \in 1..Len(pending) |-> pending[k].id]
    /\ tnext' = 1
    /\ tpc' = "next_task"
    /\ UNCHANGED <<kind, env, project_id, titems, tidx, files, container,
                   tasks, items, loopVars, chatVars>>

\* execute_task, lines 211-222: the next pending task is set running.
ExecuteTask ==
    /\ kind = "TaskAgent"
    /\ tpc = "next_task"
    /\ tnext <= Len(pending_tasks)
    /\ \E out \in WriteOuts :
         LET t == pending_tasks[tnext]
             data == StatusData("running")
         IN  /\ Spend(out)
             /\ tasks' = [tasks EXCEPT ![t] = IF Reached(out) THEN BackendPut(@, data) ELSE @]
             /\ TLog(<<Ev("PATCH_task", t, out, <<data>>)>>)
    /\ tpc' = "get_items"
    /\ UNCHANGED <<kind, env, project_id, pending_tasks, tnext, titems, tidx, files,
                   container, items, loopVars, chatVars>>

\* execute_task, lines 224-230: the items are fetched; without items the task is
\* reported completed at once.
GetTaskItems ==
    /\ kind = "TaskAgent"
    /\ tpc = "get_items"
    /\ \E out \in ReadOuts :
         LET t == pending_tasks[tnext]
             fetched == api_request(out, items[t])
         IN  /\ Spend(out)
             /\ TLog(<<Ev("GET_items", t, out, fetched)>>)
             /\ titems' = fetched
             /\ tidx' = IF fetched = Empty THEN 0 ELSE 1
             /\ tpc' = IF fetched = Empty THEN "complete" ELSE "item"
    /\ UNCHANGED <<kind, env, project_id, pending_tasks, tnext, files, container,
                   tasks, items, loopVars, chatVars>>

\* The outcomes of creating and writing a file: written, or an OSError.
FileOuts == IF faults < MaxFaults THEN {"ok", "oserror"} ELSE {"ok"}

\* execute_task, lines 233-243, one turn of the for loop: the item is dispatched by
\* its type; a file_creation item runs execute_file_creation (lines 255-288).
ExecuteItem ==
    /\ kind = "TaskAgent"
    /\ tpc = "item"
    /\ LET t == pending_tasks[tnext]
           item == titems[tidx]
           e == Ev("execute_item", t, "", <<item>>)
           after == IF tidx < Len(titems) THEN "item" ELSE "complete"
       IN  IF item.type = "file_creation" /\ HasPath(item)
           THEN \E out \in FileOuts : \E result \in ScriptResults :
                  LET content == Unescape(item.fileContent)
                      w == Ev("write_file", t, out, <<item.filePath, content>>)
                      r == Ev("run_script", t, "", <<result>>)
                      x == Ev("raise", t, "", <<>>)
                  IN  /\ Spend(out)
                      /\ IF out # "ok"
                         THEN /\ TLog(<<e, w, x>>)
                              /\ tpc' = "failed"
                              /\ UNCHANGED <<files, tidx>>
                         ELSE /\ files' = WriteFile(files, item.filePath, content)
                              /\ IF ~IsScript(item.filePath)
                                 THEN /\ result = 0
                                      /\ TLog(<<e, w>>)
                                      /\ tpc' = after
                                      /\ tidx' = tidx + 1
                                 ELSE IF ScriptRaises(result)
                                 THEN /\ TLog(<<e, w, r, x>>)
                                      /\ tpc' = "failed"
                                      /\ UNCHANGED tidx
                                 ELSE /\ TLog(<<e, w, r>>)
                                      /\ tpc' = after
                                      /\ tidx' = tidx + 1
           ELSE /\ TLog(<<e>>)
                /\ tpc' = after
                /\ tidx' = tidx + 1
                /\ UNCHANGED <<files, faults>>
    /\ UNCHANGED <<kind, env, project_id, pending_tasks, tnext, titems, container,
                   tasks, items, loopVars, chatVars>>

\* execute_task, lines 227-230 and 244-247: the task is reported completed.
CompleteTask ==
    /\ kind = "TaskAgent"
    /\ tpc = "complete"
    /\ \E out \in WriteOuts :
         LET t == pending_tasks[tnext]
             data == StatusData("completed")
         IN  /\ Spend(out)
             /\ tasks' = [tasks EXCEPT ![t] = IF Reached(out) THEN BackendPut(@, data) ELSE @]
             /\ TLog(<<Ev("PATCH_task", t, out, <<data>>)>>)
    /\ tnext' = tnext + 1
    /\ titems' = <<>>
    /\ tidx' = 0
    /\ tpc' = "next_task"
    /\ UNCHANGED <<kind, env, project_id, pending_tasks, files, container,
                   items, loopVars, chatVars>>

AfterFailedTaskEscapes == "container_failed"

\* execute_task, lines 249-252, returns False and the for loop of run (lines 323-325)
\* goes on to the next task: the exception does not leave execute_task.
AfterFailedTask == "next_task"

\* execute_task, lines 249-252: an exception was raised; the task is reported failed.
FailTask ==
    /\ kind = "TaskAgent"
    /\ tpc = "failed"
    /\ \E out \in WriteOuts :
         LET t == pending_tasks[tnext]
             data == StatusData("failed")
         IN  /\ Spend(out)
             /\ tasks' = [tasks EXCEPT ![t] = IF Reached(out) THEN BackendPut(@, data) ELSE @]
             /\ TLog(<<Ev("PATCH_task", t, out, <<data>>)>>)
    /\ tnext' = tnext + 1
    /\ titems' = <<>>
    /\ tidx' = 0
    /\ tpc' = AfterFailedTask
    /\ UNCHANGED <<kind, env, project_id, pending_tasks, files, container,
                   items, loopVars, chatVars>>

\* PATCH /api/containers/{container_id} (update_container_status), then the exit.
ReportContainer(status, code) ==
    \E out \in WriteOuts :
        LET data == [status |-> status, exitCode |-> code]
        IN  /\ Spend(out)
            /\ container' = IF Reached(out) THEN data ELSE container
            /\ TLog(<<Ev("PATCH_container", NoTask, out, <<data>>), ExitEv(code)>>)
            /\ tpc' = "exited"

\* run, lines 320-329: every task was executed; the container is reported completed.
ContainerCompleted ==
    /\ kind = "TaskAgent"
    /\ tpc = "next_task"
    /\ tnext > Len(pending_tasks)
    /\ ReportContainer("completed", 0)
    /\ UNCHANGED <<kind, env, project_id, pending_tasks, tnext, titems, tidx, files,
                   tasks, items, loopVars, chatVars>>

\* run, lines 331-335: the container is reported failed; sys.exit(1).
ContainerFailed ==
    /\ kind = "TaskAgent"
    /\ tpc = "container_failed"
    /\ ReportContainer("failed", 1)
    /\ UNCHANGED <<kind, env, project_id, pending_tasks, tnext, titems, tidx, files,
                   tasks, items, loopVars, chatVars>>

\* agent = SecondaryBrainAgent(): the module constants (agent_v2.py, lines 15-18) and
\* __init__ (lines 22-28). No value is checked and jwt.encode signs whatever
\* PROJECT_ID is, with the default secret when JWT_SECRET is not set.
SecondaryBrainAgentInit ==
    /\ kind = "SecondaryBrainAgent"
    /\ tpc = "start"
    /\ tpc' = "clone"
    /\ UNCHANGED <<kind, env, project_id, pending_tasks, tnext, titems, tidx, files, tlog,
                   container, tasks, items, faults, loopVars, chatVars>>

\* agent_v2.py run, line 268: clone_repositories (lines 219-260).
CloneRepositories ==
    /\ kind = "SecondaryBrainAgent"
    /\ tpc = "clone"
    /\ \E out \in ReadOuts : \E cloned \in BOOLEAN :
         LET repos == make_api_request(out, Repositories).json
         IN  /\ Spend(out)
             /\ TLog(<<Ev("GET_repos", NoTask, out, repos)>>)
             /\ files' = IF repos # Empty /\ cloned
                         THEN WriteFile(files, repos[1].name, <<"git">>) ELSE files
    /\ tpc' = "loop"
    /\ UNCHANGED <<kind, env, project_id, pending_tasks, tnext, titems, tidx, container,
                   tasks, items, loopVars, chatVars>>

\* agent_v2.py run, lines 273-276: the loop is entered and claim_task fetches the
\* task list (line 64); from here on the process is an agent of the claim loop.
EnterClaimLoop ==
    /\ kind = "SecondaryBrainAgent"
    /\ tpc = "loop"
    /\ \E out \in ReadOuts :
         /\ Spend(out)
         /\ TLog(<<Ev("GET_tasks", NoTask, out, make_api_request(out, TaskListJson).json)>>)
    /\ tpc' = "in_loop"
    /\ UNCHANGED <<kind, env, project_id, pending_tasks, tnext, titems, tidx, files,
                   container, tasks, items, loopVars, chatVars>>

\* The items a task of the TaskAgent may hold: lists of up to MaxTaskItems items of
\* every type, with and without a file path, and single files of every content.
ItemPool ==
    {FileItem("planning", NoPath, <<>>), FileItem("completion", NoPath, <<>>),
     FileItem("other", NoPath, <<>>), FileItem("file_creation", NoPath, <<"x">>),
     FileItem("file_creation", TxtPath, <<BS, "n">>),
     FileItem("file_creation", PyPath, <<"x">>)}

TaskItemLists ==
    (UNION {[1..n -> ItemPool] : n \in 0..MaxTaskItems})
        \cup {<<FileItem("file_creation", TxtPath, c)>> : c \in Contents}

NoteList == <<FileItem("planning", NoPath, <<>>)>>

\* A process is started in some environment. The project has NumTasks pending
\* tasks; the first holds any of the item lists, the others a planning note.
InitTask ==
    /\ AgentInit
    /\ chatItems = <<>>
    /\ chatOrig = <<>>
    /\ chatFirst = <<>>
    /\ chatOut = <<>>
    /\ chatPc = "input"
    /\ kind \in {"TaskAgent", "SecondaryBrainAgent"}
    /\ env \in EnvironmentsOf(kind)
    /\ tpc = "start"
    /\ project_id = <<>>
    /\ pending_tasks = <<>>
    /\ tnext = 0
    /\ titems = <<>>
    /\ tidx = 0
    /\ files = <<>>
    /\ tlog = <<>>
    /\ container = [status |-> "running", exitCode |-> <<>>]
    /\ tasks = PendingTasks(NumTasks)
    /\ IF kind = "TaskAgent" /\ ~InitRaises(env)
       THEN \E list \in TaskItemLists :
               items = [t \in TaskIds |-> IF t = 1 THEN list ELSE NoteList]
       ELSE items = [t \in TaskIds |-> <<>>]

NextTask ==
    \/ TaskAgentInit
    \/ SetupWorkspace
    \/ GetProjectTasks
    \/ ExecuteTask
    \/ GetTaskItems
    \/ ExecuteItem
    \/ CompleteTask
    \/ FailTask
    \/ ContainerCompleted
    \/ ContainerFailed
    \/ SecondaryBrainAgentInit
    \/ CloneRepositories
    \/ EnterClaimLoop

SpecTask == InitTask /\ [][NextTask]_vars

-----------------------------------------------------------------------------
(* Properties of build_chat_history (checked under SpecChat) *)

\* No two items of the list share a sort key (the same createdAt, or both none).
DistinctKeys(s) == \A i, j \in 1..Len(s) : i # j => SortKey(s[i]) # SortKey(s[j])

\* C4 as stated: whatever the order in which the same items are passed to
\* build_chat_history, also when items share a createdAt or have none, the
\* history built equals the one built for the first order.
C4_AnyOrderSameHistory == chatPc = "built" => chatOut = chatFirst

\* C4 as amended: for items whose createdAt keys are pairwise distinct (a missing
\* createdAt counting as one key), the history built is the same for every order
\* in which the items are passed.
C4_DistinctKeysSameHistory ==
    (chatPc = "built" /\ DistinctKeys(chatItems)) => chatOut = chatFirst

\* Witness of C4: a history of several messages was rebuilt from a reordered
\* list of items with distinct keys.
C4_Witness ==
    /\ chatPc = "built"
    /\ chatItems # chatOrig
    /\ DistinctKeys(chatItems)
    /\ Len(chatOut) >= 2
    /\ chatOut[1] # chatOut[2]

\* C5: a single planning item with non-empty content X, non-empty chatResponse Y
\* and no toolName yields exactly the two messages user(X), assistant(Y).
C5_PerItemExpansion ==
    (/\ chatPc = "built"
     /\ Len(chatItems) = 1
     /\ chatItems[1].type = "planning"
     /\ chatItems[1].content # Empty
     /\ chatItems[1].chatResponse # Empty
     /\ chatItems[1].toolName = Empty)
    => chatOut = <<[role |-> "user", content |-> chatItems[1].content, tool_calls |-> <<>>],
                   [role |-> "assistant", content |-> chatItems[1].chatResponse,
                    tool_calls |-> <<>>]>>

\* Witness of C5: the history of one such item has been built.
C5_Witness ==
    /\ chatPc = "built"
    /\ Len(chatItems) = 1
    /\ chatItems[1].type = "planning"
    /\ chatItems[1].content = <<"X">>
    /\ chatItems[1].chatResponse = <<"Y">>
    /\ chatItems[1].toolName = Empty
    /\ Len(chatOut) = 2

-----------------------------------------------------------------------------
(* Properties of the agents and the backend (checked under Spec) *)

IsClaimEv(e) == e.ev = "PUT_task" /\ IsClaimUpdate(e.body[1])
IsCompletedEv(e) == e.ev = "PUT_task" /\ e.body[1] = CompletionData
IsFailedEv(e) == e.ev = "PUT_task" /\ e.body[1] = FailureData
IsRaiseEv(e) == e.ev = "raise"
IsReturnEv(e) == e.ev = "return"
IsSleepEv(e) == e.ev = "sleep"

\* The claim updates an agent issued in its current call of claim_task.
Claims(a) == SelectSeq(trace[a], IsClaimEv)

Evs(a) == {trace[a][i] : i \in 1..Len(trace[a])}

\* The agents whose accepted claim of t was answered, and those whose answer was lost.
Answered(t) == {p[1] : p \in {q \in accepted[t] : q[2]}}
Unanswered(t) == {p[1] : p \in {q \in accepted[t] : ~q[2]}}

StatusMoves == {<<"pending", "running">>, <<"running", "completed">>, <<"running", "failed">>}

\* C2: the status of a task only ever moves pending -> running -> completed or
\* failed: every change of a task's status is one of these three moves.
C2_StatusMonotonic ==
    [][\A t \in DOMAIN tasks :
          tasks'[t].status # tasks[t].status
              => <<tasks[t].status, tasks'[t].status>> \in StatusMoves]_vars

\* Witness of C2: a task has reached a terminal status and a later claim update
\* for it, issued from a stale task list, was rejected.
C2_Witness ==
    \E t \in DOMAIN tasks : \E a \in Agents :
        /\ tasks[t].status \in {"completed", "failed"}
        /\ a \notin executors[t]
        /\ \E e \in Evs(a) : IsClaimEv(e) /\ e.task = t /\ e.out = "rejected"

\* The candidates of the list an agent fetched in its current call of claim_task.
FetchedCandidates(a) ==
    IF trace[a] = <<>> \/ trace[a][1].ev # "GET_tasks" THEN {}
    ELSE LET list == trace[a][1].body
         IN  {list[k].id : k \in {n \in 1..Len(list) : IsCandidate(list[n])}}

ReturnedNone(a) == \E e \in Evs(a) : IsReturnEv(e) /\ e.task = NoTask
ReturnedTask(a) == \E e \in Evs(a) : IsReturnEv(e) /\ e.task # NoTask

\* C3 as stated: when the claim update of the first candidate is rejected or its
\* response is empty, the call issues no claim update for another candidate (and
\* returns no task): a call of claim_task issues at most one claim update.
C3_NoSecondCandidate ==
    \A a \in Agents :
        (Len(Claims(a)) >= 1 /\ Claims(a)[1].out # "ok") => Len(Claims(a)) = 1

\* C3 as amended: a call of claim_task never issues a second claim update for the
\* same candidate; after an update that is rejected or whose response is empty it
\* goes on with the next candidate of the fetched list, in list order; it returns
\* a task as soon as one update is answered, and returns no task only when the
\* update of every candidate of the fetched list was rejected or left unanswered.
C3_NextCandidateOnFailure ==
    \A a \in Agents :
        LET c == Claims(a)
        IN  /\ \A i, j \in 1..Len(c) : i < j => c[i].task < c[j].task
            /\ \A i \in 1..Len(c) : c[i].task \in FetchedCandidates(a)
            /\ \A i \in 1..Len(c) : i < Len(c) => c[i].out # "ok"
            /\ ReturnedTask(a) => c[Len(c)].out = "ok"
            /\ ReturnedNone(a) =>
                  /\ \A i \in 1..Len(c) : c[i].out # "ok"
                  /\ {c[i].task : i \in 1..Len(c)} = FetchedCandidates(a)

\* Witness of C3: the update of the first candidate failed, the call went on to the
\* next candidate, whose update also failed, and returned no task.
C3_Witness ==
    \E a \in Agents :
        /\ Len(Claims(a)) >= 2
        /\ Claims(a)[1].out = "rejected"
        /\ ReturnedNone(a)

\* The requests of an agent's current iteration that write to task t.
IsWriteEv(e) == e.ev \in {"PUT_task", "POST_item"}
Writes(a, t) == SelectSeq(trace[a], LAMBDA e : IsWriteEv(e) /\ e.task = t)

IsInitialPost(e) == e.ev = "POST_item" /\ e.body[1].title = "Initial Task Analysis"
IsResponsePost(e) == e.ev = "POST_item" /\ e.body[1].chatResponse # Empty

\* The position of the first event of trace[a] that satisfies Test; 0 if none.
FirstPos(a, Test(_)) ==
    LET P == {i \in 1..Len(trace[a]) : Test(trace[a][i])}
    IN  IF P = {} THEN 0 ELSE CHOOSE i \in P : \A j \in P : i <= j

IsGetItems(e) == e.ev = "GET_items"

HasInitialItem(t) == \E k \in 1..Len(items[t]) : items[t][k].title = "Initial Task Analysis"

\* C6 as stated: a task that already has a persisted item never gets the synthetic
\* 'Initial Task Analysis' item, also when the item fetch fails in transport.
C6_NoInitialWhenPersisted ==
    \A t \in DOMAIN tasks :
        (Len(items[t]) >= 1 /\ items[t][1].title # "Initial Task Analysis")
            => ~HasInitialItem(t)

\* C6 as amended: execute_planner_loop creates the synthetic 'Initial Task Analysis'
\* item exactly when the list it fetched is empty, which includes a fetch that
\* failed in transport; when the fetch returns at least one item, no synthetic item
\* is created in that run.
C6_InitialOnlyWhenFetchedEmpty ==
    \A a \in Agents :
        LET g == FirstPos(a, IsGetItems)
            p == FirstPos(a, IsInitialPost)
        IN  /\ p # 0 => (g # 0 /\ p = g + 1 /\ trace[a][g].body = Empty)
            /\ (g # 0 /\ trace[a][g].body # Empty) => p = 0
            /\ (g # 0 /\ trace[a][g].body = Empty /\ Len(trace[a]) > g
                  /\ ~IsRaiseEv(trace[a][g + 1])) => p = g + 1

\* Witness of C6: one agent fetched an empty list and created the initial item,
\* another fetched a persisted item, created none and reported its task completed.
C6_Witness ==
    \E a, b \in Agents :
        /\ FirstPos(a, IsInitialPost) # 0
        /\ trace[a][FirstPos(a, IsGetItems)].out = "ok"
        /\ FirstPos(b, IsGetItems) # 0
        /\ trace[b][FirstPos(b, IsGetItems)].body # Empty
        /\ FirstPos(b, IsInitialPost) = 0
        /\ FirstPos(b, IsCompletedEv) # 0

InSeq(x, s) == \E i \in 1..Len(s) : s[i] = x

\* An agent's iteration ran a task that had no item against a backend that
\* accepted every request, and is over.
CleanRun(a, t) ==
    /\ trace[a] # <<>>
    /\ IsCompletedEv(trace[a][Len(trace[a])])
    /\ trace[a][Len(trace[a])].task = t
    /\ \A e \in Evs(a) : (e.task = t /\ (IsWriteEv(e) \/ IsGetItems(e))) => e.out = "ok"
    /\ \E e \in Evs(a) : IsGetItems(e) /\ e.body = Empty

\* C7: for a pending task without items and a backend that accepts every request,
\* the agent's writes for the task are, in this order, the claim update
\* (containerId and status running), the creation of the initial planning item
\* whose content contains the task title, the creation of the planner response
\* item carrying a chatResponse, and the completed update; the task is completed.
C7_EndToEndOrder ==
    \A a \in Agents : \A t \in DOMAIN tasks :
        CleanRun(a, t) =>
            LET w == Writes(a, t)
            IN  /\ Len(w) = 4
                /\ w[1].ev = "PUT_task"
                /\ w[1].body = <<[status |-> "running", containerId |-> a]>>
                /\ IsInitialPost(w[2])
                /\ w[2].body[1].type = "planning"
                /\ InSeq(TaskTitle(t), w[2].body[1].content)
                /\ IsResponsePost(w[3])
                /\ w[4].ev = "PUT_task"
                /\ w[4].body = <<[status |-> "completed", containerId |-> NoContainer]>>
                /\ tasks[t].status = "completed"

\* Witness of C7: such a run has taken place.
C7_Witness == \E a \in Agents : \E t \in DOMAIN tasks : CleanRun(a, t)

IsIdleSleep(e) == IsSleepEv(e) /\ e.body = <<IDLE_SLEEP>>
IsErrorSleep(e) == IsSleepEv(e) /\ e.body = <<ERROR_SLEEP>>

Raised(a) == \E e \in Evs(a) : IsRaiseEv(e)
Slept(a) == \E e \in Evs(a) : IsSleepEv(e)
Last(a) == trace[a][Len(trace[a])]

\* The agent's loop iteration is over: it is back at the top of the loop.
IterationOver(a) == pc[a] = "claim" /\ trace[a] # <<>>

\* The idle sleep is taken if and only if claim_task returned no task without
\* raising, and then it ends the iteration.
IdleSleepIff(a) ==
    /\ (\E e \in Evs(a) : IsIdleSleep(e)) => (ReturnedNone(a) /\ ~Raised(a))
    /\ (ReturnedNone(a) /\ ~Raised(a)) => pc[a] \in {"idle_sleep", "claim"}
    /\ (IterationOver(a) /\ ReturnedNone(a) /\ ~Raised(a)) => IsIdleSleep(Last(a))
    /\ \A i \in 1..Len(trace[a]) : IsSleepEv(trace[a][i]) => i = Len(trace[a])

\* C8 as stated: in every iteration the idle sleep (30 s) is taken if and only if
\* claim_task returned no task without raising, and an iteration in which a
\* terminal report (completed or failed) was issued for a task ends without any
\* sleep before the next claim attempt.
C8_NoSleepAfterTerminalReport ==
    \A a \in Agents :
        /\ IdleSleepIff(a)
        /\ (\E e \in Evs(a) : IsCompletedEv(e) \/ IsFailedEv(e)) => ~Slept(a)

\* C8 as amended: in every iteration the idle sleep (30 s) is taken if and only if
\* claim_task returned no task without raising; after the completed update of a
\* task the next claim attempt follows with no sleep in between; after the failed
\* update the error sleep (60 s), and no other sleep, precedes the next attempt.
C8_BackoffPolicy ==
    \A a \in Agents :
        /\ IdleSleepIff(a)
        /\ (\E e \in Evs(a) : IsCompletedEv(e)) =>
              (IsCompletedEv(Last(a)) /\ pc[a] = "claim" /\ ~Slept(a))
        /\ (\E e \in Evs(a) : IsFailedEv(e)) =>
              \/ IsFailedEv(Last(a)) /\ pc[a] = "error_sleep"
              \/ IsErrorSleep(Last(a)) /\ pc[a] = "claim"

\* Witness of C8: one agent found no task to claim and took the idle sleep, the
\* other reported its task completed and is at the next claim attempt, not
\* having slept.
C8_Witness ==
    \E a, b \in Agents :
        /\ IterationOver(a) /\ ReturnedNone(a) /\ IsIdleSleep(Last(a))
        /\ Len(Claims(a)) >= 1
        /\ IterationOver(b) /\ IsCompletedEv(Last(b)) /\ ~Slept(b)

\* The item of a creation request is among the persisted items of task t.
Persisted(t, item) ==
    \E k \in 1..Len(items[t]) : [items[t][k] EXCEPT !.createdAt = 0] = item

\* C9: when an exception is raised after claim_task returned a task and before the
\* completed update of that task is issued, the agent's next request is the failed
\* update of that same task, it issues no completed update for it, current_task is
\* cleared, the error sleep (60 s) follows and the agent is back at the claim
\* attempt; the items created for the task before the exception stay persisted.
C9_FailureReporting ==
    \A a \in Agents : \A i \in 1..Len(trace[a]) :
        (IsRaiseEv(trace[a][i]) /\ trace[a][i].task # NoTask) =>
            LET t == trace[a][i].task
                n == Len(trace[a])
            IN  /\ \E j \in 1..(i - 1) : IsReturnEv(trace[a][j]) /\ trace[a][j].task = t
                /\ \A e \in Evs(a) : ~(IsCompletedEv(e) /\ e.task = t)
                /\ n = i => (pc[a] = "handler" /\ current_task[a] = t)
                /\ n > i => /\ IsFailedEv(trace[a][i + 1])
                            /\ trace[a][i + 1].task = t
                            /\ current_task[a] = NoTask
                /\ n = i + 1 => pc[a] = "error_sleep"
                /\ n > i + 1 => (n = i + 2 /\ IsErrorSleep(trace[a][n]) /\ pc[a] = "claim")
                /\ \A j \in 1..(i - 1) :
                      (trace[a][j].ev = "POST_item" /\ Reached(trace[a][j].out))
                          => Persisted(t, trace[a][j].body[1])

\* Witness of C9: an exception was raised after an item had been created for the
\* claimed task; the task is failed, the item persists, the agent has slept the
\* error sleep and is back at the claim attempt.
C9_Witness ==
    \E a \in Agents : \E i \in 1..Len(trace[a]) :
        /\ IsRaiseEv(trace[a][i])
        /\ trace[a][i].task # NoTask
        /\ \E j \in 1..(i - 1) : trace[a][j].ev = "POST_item" /\ trace[a][j].out = "ok"
        /\ Len(trace[a]) = i + 2
        /\ tasks[trace[a][i].task].status = "failed"
        /\ pc[a] = "claim"

\* The iteration of run() over an empty task list.
EmptyQueueIteration ==
    <<Ev("GET_tasks", NoTask, "ok", Empty), Ev("return", NoTask, "", <<>>),
      Ev("sleep", NoTask, "", <<IDLE_SLEEP>>)>>

\* The events of an iteration, the outcome of a failed read hidden.
Masked(s) == [i \in 1..Len(s) |-> [s[i] EXCEPT !.out = IF @ = "fail" THEN "ok" ELSE @]]

FetchFailed(a) ==
    trace[a] # <<>> /\ trace[a][1].ev = "GET_tasks" /\ trace[a][1].out = "fail"
FetchedEmptyList(a) ==
    trace[a] # <<>> /\ trace[a][1].ev = "GET_tasks" /\ trace[a][1].out = "ok"
        /\ trace[a][1].body = Empty

\* C10: an iteration whose task-list fetch failed in transport and an iteration
\* whose fetch returned the empty list run the same course: claim_task raises
\* nothing, issues no update and returns no task, no task is in flight, and the
\* loop takes the idle sleep (not the error sleep, and no failed report) and is
\* back at the claim attempt.
C10_FailedFetchAsEmptyQueue ==
    \A a \in Agents :
        (FetchFailed(a) \/ FetchedEmptyList(a)) =>
            LET n == Len(trace[a])
            IN  /\ n \in 2..3
                /\ Masked(trace[a]) = SubSeq(EmptyQueueIteration, 1, n)
                /\ pc[a] = IF n = 2 THEN "idle_sleep" ELSE "claim"
                /\ current_task[a] = NoTask

\* Witness of C10: the fetch failed while a pending task was in the queue, and the
\* agent has taken the idle sleep.
C10_Witness ==
    \E a \in Agents :
        /\ FetchFailed(a)
        /\ Len(trace[a]) = 3
        /\ \E t \in DOMAIN tasks : tasks[t].status = "pending"

-----------------------------------------------------------------------------
(* Sequencing of claims, planner and reports (checked under Spec) *)

\* The tasks for which the backend accepted a claim update of agent a, and those
\* for which a also received the answer (the tasks claim_task returned to it).
AcceptedFor(a) == {t \in DOMAIN tasks : a \in Answered(t) \cup Unanswered(t)}
ReturnedTo(a) == {t \in DOMAIN tasks : a \in Answered(t)}

\* The agent holds no in-flight task while it fetches the list or claims.
NoClaimWhileInFlight(a) == pc[a] \in {"claim", "scan"} => current_task[a] = NoTask

IsPlannerEv(e) == e.ev = "planner"

\* The item yields at least one chat message.
YieldsMessage(item) ==
    \/ item.type = "planning" /\ item.content # Empty
    \/ item.chatResponse # Empty
    \/ item.toolName # Empty

\* The history the current cycle of agent a holds at line 171 is not empty: a
\* fetched item yields a message, or the creation of the initial item was answered.
HistoryAtPlanner(a) ==
    LET g == FirstPos(a, IsGetItems)
        p == FirstPos(a, IsInitialPost)
    IN  \/ g # 0 /\ \E k \in 1..Len(trace[a][g].body) : YieldsMessage(trace[a][g].body[k])
        \/ p # 0 /\ trace[a][p].out = "ok"

\* The completed update at position c of the trace directly follows an invocation
\* of the planner and the creation request of the planner response item.
PlannerBefore(a, c) ==
    /\ c > 2
    /\ IsPlannerEv(trace[a][c - 2])
    /\ IsResponsePost(trace[a][c - 1])
    /\ trace[a][c - 1].task = trace[a][c].task

PlannerSkipped(a, c) ==
    \A i \in 1..c : ~IsPlannerEv(trace[a][i]) /\ ~IsResponsePost(trace[a][i])

\* C14 as stated: every completed update issued by execute_planner_loop is
\* preceded, in the same cycle, by an invocation of the planner and by the
\* creation of a planner response item for that task.
C14_PlannerAlwaysInvoked ==
    \A a \in Agents : \A c \in 1..Len(trace[a]) :
        IsCompletedEv(trace[a][c]) => PlannerBefore(a, c)

\* C14 as amended: a completed update is preceded, in the same cycle, by an
\* invocation of the planner and the creation request of a planner response item
\* exactly when the history is not empty at that point; when the fetched items
\* yield no message and no initial item creation was answered, the loop reports
\* completed with the planner skipped and no response item.
C14_PlannerIffHistory ==
    \A a \in Agents : \A c \in 1..Len(trace[a]) :
        IsCompletedEv(trace[a][c]) =>
            IF HistoryAtPlanner(a) THEN PlannerBefore(a, c) ELSE PlannerSkipped(a, c)

\* Witness of C14: one agent reported completed after the planner was invoked,
\* another after the planner was skipped for an item that yields no message.
C14_Witness ==
    \E a, b \in Agents :
        /\ trace[a] # <<>> /\ IsCompletedEv(Last(a)) /\ PlannerBefore(a, Len(trace[a]))
        /\ trace[b] # <<>> /\ IsCompletedEv(Last(b)) /\ PlannerSkipped(b, Len(trace[b]))
        /\ trace[b][FirstPos(b, IsGetItems)].body # Empty

\* C15: at the point the planner is consulted (line 171) the in-memory history
\* of the agent contains the initial user message if and only if the initial
\* planning item is persisted on the backend for its task.
C15_HistoryMatchesPersistence ==
    \A a \in Agents :
        pc[a] = "planner" =>
            (InSeq(Message("user", InitialContent(task[a]), <<>>), chat_history[a])
                <=> HasInitialItem(task[a]))

\* The dispatch of one task item to the item executor.
IsExecuteEv(e) == e.ev = "execute_item"

\* The items dispatched in the first c events of a log, in dispatch order.
DispatchedItems(log, c) ==
    LET d == SelectSeq(SubSeq(log, 1, c), IsExecuteEv)
    IN  [k \in 1..Len(d) |-> d[k].body[1]]

\* C16: before execute_planner_loop issues the completed update of a task, every
\* item it fetched for the task has been dispatched to the item executor exactly
\* once, in fetched order.
C16_ItemsExecutedBeforeCompleted ==
    \A a \in Agents : \A c \in 1..Len(trace[a]) :
        IsCompletedEv(trace[a][c]) =>
            DispatchedItems(trace[a], c) = trace[a][FirstPos(a, IsGetItems)].body

\* A polling cycle of agent a begins in this step: it fetches the task list.
FetchStep(a) == pc[a] = "claim" /\ trace'[a] # trace[a]

\* Agent a issues a claim update in this step.
ClaimStep(a) == pc[a] = "scan" /\ Len(Claims(a)') > Len(Claims(a))

\* C17: once a completed or failed update has been issued for a task, no polling
\* cycle that begins afterwards issues a claim update for it: a list fetched
\* after the report never shows the task as a candidate, and an agent issues
\* claim updates only for candidates of the list its current cycle fetched.
C17_NoRetryAfterReport ==
    [][\A a \in Agents :
          /\ FetchStep(a) =>
                \A t \in DOMAIN tasks :
                    reporters[t] # {} => t \notin FetchedCandidates(a)'
          /\ ClaimStep(a) =>
                Claims(a)'[Len(Claims(a)')].task \in FetchedCandidates(a)]_vars

\* Witness of C17: an agent, in a cycle begun after another agent's report of a
\* task, fetched a list that shows that task completed or failed, and issued a
\* claim update for another task.
C17_Witness ==
    \E a, b \in Agents : \E t \in DOMAIN tasks :
        /\ a # b
        /\ a \in reporters[t]
        /\ trace[b] # <<>>
        /\ trace[b][1].ev = "GET_tasks"
        /\ trace[b][1].out = "ok"
        /\ trace[b][1].body[t].status \in {"completed", "failed"}
        /\ \E e \in Evs(b) : IsClaimEv(e) /\ e.task # t

-----------------------------------------------------------------------------
(* The construction of the chat history, position by position (checked under SpecChat) *)

\* The position of s[i] in ascending order of createdAt, equal keys in input order.
Rank(s, i) ==
    Cardinality({j \in 1..Len(s) : \/ SortKey(s[j]) < SortKey(s[i])
                                   \/ SortKey(s[j]) = SortKey(s[i]) /\ j < i}) + 1

Ascending(s) == [r \in 1..Len(s) |-> s[CHOOSE i \in 1..Len(s) : Rank(s, i) = r]]

WantsUser(item) == item.type = "planning" /\ item.content # Empty
WantsAssistant(item) == item.chatResponse # Empty
WantsTool(item) == item.toolName # Empty

Bit(b) == IF b THEN 1 ELSE 0
Count(item) == Bit(WantsUser(item)) + Bit(WantsAssistant(item)) + Bit(WantsTool(item))

\* The number of messages of the items before position k.
RECURSIVE Offset(_, _)
Offset(s, k) == IF k <= 1 THEN 0 ELSE Offset(s, k - 1) + Count(s[k - 1])

\* C18: the history is the concatenation, over the items in ascending createdAt,
\* of each item's messages: a user message with the content if the type is
\* planning and the content is non-empty, then an assistant message with the
\* chatResponse if it is non-empty, then an assistant message with one tool-call
\* record if toolName is set; each condition counts on its own, an item yields
\* between 0 and 3 messages and nothing when it meets none.
C18_HistoryConstruction ==
    chatPc = "built" =>
        LET s == Ascending(chatItems)
        IN  /\ Len(chatOut) = Offset(s, Len(s) + 1)
            /\ \A k \in 1..Len(s) :
                 LET o == Offset(s, k)
                     it == s[k]
                 IN  /\ Count(it) \in 0..3
                     /\ WantsUser(it) =>
                          chatOut[o + 1] =
                              [role |-> "user", content |-> it.content, tool_calls |-> <<>>]
                     /\ WantsAssistant(it) =>
                          chatOut[o + 1 + Bit(WantsUser(it))] =
                              [role |-> "assistant", content |-> it.chatResponse,
                               tool_calls |-> <<>>]
                     /\ WantsTool(it) =>
                          /\ chatOut[o + Count(it)].role = "assistant"
                          /\ InSeq(it.toolName[1], chatOut[o + Count(it)].content)
                          /\ chatOut[o + Count(it)].tool_calls =
                               <<[name |-> it.toolName, parameters |-> it.toolParameters,
                                  response |-> it.toolResponse]>>

\* Witness of C18: the history of two items passed in descending createdAt, one
\* of which yields all three messages and the other none, has been built.
C18_Witness ==
    /\ chatPc = "built"
    /\ Len(chatItems) = 2
    /\ SortKey(chatItems[1]) > SortKey(chatItems[2])
    /\ Count(chatItems[1]) = 3
    /\ Count(chatItems[2]) = 0
    /\ Len(chatOut) = 3

-----------------------------------------------------------------------------
(* Properties of the process start and of the TaskAgent (checked under SpecTask) *)

\* A required configuration value is missing, or (TaskAgent) the token cannot be
\* decoded to a project identity. JWT_SECRET has a default and is never missing.
ConfigMissing ==
    IF kind = "TaskAgent"
    THEN env.JWT_TOKEN # "valid" \/ env.CONTAINER_ID = "unset"
    ELSE env.PROJECT_ID = "unset" \/ env.CONTAINER_ID = "unset"

\* C11: if a required configuration value is missing or the token cannot be
\* decoded to a project identity, the process stops before it issues any backend
\* request and never enters the claim loop (or the execution of tasks).
C11_FatalStartup ==
    ConfigMissing =>
        /\ \A i \in 1..Len(tlog) : ~IsRequestEv(tlog[i])
        /\ tpc \in {"start", "exited"}

\* The positions of the occurrences of backslash-n in a content.
Occurrences(str) == {i \in 1..(Len(str) - 1) : str[i] = BS /\ str[i + 1] = "n"}

\* The positions of a content that yield a character of the output: all but the
\* 'n' of an occurrence.
Yielding(str) == {i \in 1..Len(str) : (i - 1) \notin Occurrences(str)}

IsWrittenEv(e) == e.ev = "write_file" /\ e.out = "ok"

\* C12: the content written by execute_file_creation is the fileContent of the
\* item with every occurrence of backslash-n replaced by one newline and every
\* other character unchanged and in the same order; the file holds that content.
C12_NewlineUnescape ==
    \A i \in 1..Len(tlog) :
        IsWrittenEv(tlog[i]) =>
            LET input == tlog[i - 1].body[1].fileContent
                path == tlog[i].body[1]
                written == tlog[i].body[2]
                Y == Yielding(input)
            IN  /\ Len(written) = Cardinality(Y)
                /\ \A p \in Y :
                     written[Cardinality({q \in Y : q <= p})] =
                         IF p \in Occurrences(input) THEN NL ELSE input[p]
                /\ (\A j \in (i + 1)..Len(tlog) : ~IsWrittenEv(tlog[j]))
                      => files[path] = written

\* Witness of C12: a content with two occurrences of backslash-n and a backslash
\* and an 'n' that belong to none has been written.
C12_Witness ==
    \E i \in 1..Len(tlog) :
        /\ IsWrittenEv(tlog[i])
        /\ tlog[i - 1].body[1].fileContent = <<BS, "n", BS, "n">>
        /\ tlog[i].body[2] = <<NL, NL>>
        /\ files[TxtPath] = <<NL, NL>>

\* The items the executor treats as a no-op: every type but file_creation, and a
\* file_creation item without a file path.
IsNoOp(item) == item.type # "file_creation" \/ item.filePath = NoPath

\* C19: processing a planning, completion or unrecognized item, or a file_creation
\* item without a file path, leaves the workspace files unchanged and raises no
\* error: the loop moves on to the next item or to the completed report, and the
\* failed report is only ever reached from a file_creation item with a path.
C19_NoOpItems ==
    [][/\ (tpc = "item" /\ IsNoOp(titems[tidx])) =>
              /\ files' = files
              /\ tidx' = tidx + 1
              /\ tpc' = IF tidx < Len(titems) THEN "item" ELSE "complete"
              /\ tlog' = Append(tlog, Ev("execute_item", pending_tasks[tnext], "",
                                         <<titems[tidx]>>))
       /\ (tpc' = "failed" /\ tpc # "failed") =>
              (tpc = "item" /\ ~IsNoOp(titems[tidx]))]_vars

\* Witness of C19: a task of two no-op items, one of an unrecognized type and one
\* file_creation item without a path, was processed and reported completed, and
\* no file was written.
C19_Witness ==
    /\ \E i \in 1..Len(tlog) :
          IsExecuteEv(tlog[i]) /\ tlog[i].task = 1 /\ tlog[i].body[1].type = "other"
    /\ \E i \in 1..Len(tlog) :
          /\ IsExecuteEv(tlog[i]) /\ tlog[i].task = 1
          /\ tlog[i].body[1].type = "file_creation"
          /\ tlog[i].body[1].filePath = NoPath
    /\ \E i \in 1..Len(tlog) :
          /\ tlog[i].ev = "PATCH_task" /\ tlog[i].task = 1
          /\ tlog[i].body[1].status = "completed"
    /\ \A i \in 1..Len(tlog) : tlog[i].ev # "write_file"
    /\ TxtPath \notin DOMAIN files

IsFailedScript(e) == e.ev = "run_script" /\ e.body[1] # 0
IsTaskReport(e, t, status) ==
    e.ev = "PATCH_task" /\ e.task = t /\ e.body[1].status = status

\* The items fetched for the task whose events surround position i of the log.
FetchedBefore(i) ==
    LET G == {g \in 1..i : tlog[g].ev = "GET_items"}
    IN  tlog[CHOOSE g \in G : \A h \in G : h <= g].body

\* The positions after i up to the report of the task executed at position i.
UpToReport(i) ==
    {j \in (i + 1)..Len(tlog) :
        \A k \in (i + 1)..(j - 1) : tlog[k].ev # "PATCH_task"}

\* C20: when the script written by a file_creation item returns a nonzero exit
\* code, nothing is raised: the next event is the dispatch of the next item or,
\* after the last item, the completed report; unless a later file cannot be
\* written, every fetched item is dispatched, in order, and the task is reported
\* completed, not failed.
C20_BestEffortScript ==
    \A i \in 1..Len(tlog) :
        IsFailedScript(tlog[i]) =>
            LET t == tlog[i].task
                R == UpToReport(i)
            IN  /\ i < Len(tlog) =>
                      \/ IsExecuteEv(tlog[i + 1]) /\ tlog[i + 1].task = t
                      \/ IsTaskReport(tlog[i + 1], t, "completed")
                /\ \A j \in R :
                      (tlog[j].ev = "PATCH_task" /\ \A k \in R : ~IsRaiseEv(tlog[k])) =>
                          /\ IsTaskReport(tlog[j], t, "completed")
                          /\ LET d == SelectSeq(SubSeq(tlog, 1, j),
                                                LAMBDA e : IsExecuteEv(e) /\ e.task = t)
                             IN  [k \in 1..Len(d) |-> d[k].body[1]] = FetchedBefore(i)

\* Witness of C20: a script returned a nonzero exit code, the next item of the
\* task was processed and the task was reported completed.
C20_Witness ==
    \E i \in 1..Len(tlog) : \E j \in (i + 2)..Len(tlog) :
        /\ IsFailedScript(tlog[i])
        /\ IsExecuteEv(tlog[i + 1])
        /\ tlog[i + 1].task = tlog[i].task
        /\ IsTaskReport(tlog[j], tlog[i].task, "completed")
        /\ tlog[j].out = "ok"
        /\ tasks[tlog[i].task].status = "completed"

-----------------------------------------------------------------------------
(* The terminal container update of TaskAgent.run (checked under SpecTask) *)

IsContainerEv(e) == e.ev = "PATCH_container"
IsTaskStatusEv(e) == e.ev = "PATCH_task"

ContainerUpdates == SelectSeq(tlog, IsContainerEv)

\* run was entered (the constructor returned) and the process has ended.
RunEnded == kind = "TaskAgent" /\ tpc = "exited" /\ ~InitRaises(env)

\* An exception reached the except clause of run: it was raised outside of
\* every execute_task, whose own handler catches what its items raise.
Escaped == \E i \in 1..Len(tlog) : tlog[i].ev = "raise" /\ tlog[i].task = NoTask

\* C21: a run of the TaskAgent never issues more than one container update; a
\* run that has ended has issued exactly one, which is completed with exit code 0
\* when no exception escaped the try block of run and failed with exit code 1
\* otherwise, the process exits with that code, and every task status update of
\* the run was issued before the container update.
C21_ContainerTerminalStatus ==
    kind = "TaskAgent" =>
        /\ Len(ContainerUpdates) <= 1
        /\ RunEnded =>
              /\ Len(ContainerUpdates) = 1
              /\ ContainerUpdates[1].body[1] =
                    IF Escaped THEN [status |-> "failed", exitCode |-> 1]
                    ELSE [status |-> "completed", exitCode |-> 0]
              /\ tlog[Len(tlog)] = ExitEv(ContainerUpdates[1].body[1].exitCode)
              /\ IsContainerEv(tlog[Len(tlog) - 1])
        /\ \A i, j \in 1..Len(tlog) :
              IsContainerEv(tlog[i]) /\ IsTaskStatusEv(tlog[j]) => j < i

\* A run has ended with the container reported completed although one of its
\* tasks was reported failed and another completed.
C21_Witness ==
    /\ RunEnded
    /\ ~Escaped
    /\ ContainerUpdates[1].body[1].status = "completed"
    /\ \E i, j \in 1..Len(tlog) :
          /\ IsTaskStatusEv(tlog[i]) /\ tlog[i].body[1].status = "failed"
          /\ IsTaskStatusEv(tlog[j]) /\ tlog[j].body[1].status = "completed"

-----------------------------------------------------------------------------
(* Terminal reports per claim (checked under Spec) *)

IsTerminalEv(e) == IsCompletedEv(e) \/ IsFailedEv(e)

\* The step appends a completed or failed update to the agent's trace.
IssuesTerminal(a) ==
    /\ trace'[a] # trace[a]
    /\ trace'[a] # <<>>
    /\ IsTerminalEv(trace'[a][Len(trace'[a])])

\* The terminal updates among the events of the agent's current iteration.
TerminalsOf(a) == SelectSeq(trace[a], IsTerminalEv)

\* C22: an agent issues a completed or failed update only for the task in its
\* hands and only if it has issued no terminal update for that task before, in
\* this or in an earlier iteration; so every task gets at most one terminal update
\* from each agent, and no failed update follows the agent's completed update.
C22_AtMostOneTerminalReport ==
    [][\A a \in Agents :
          IssuesTerminal(a) =>
            LET e == trace'[a][Len(trace'[a])]
            IN  /\ e.task = current_task[a]
                /\ a \notin reporters[e.task]
                /\ Len(TerminalsOf(a)) = 0]_vars

\* An agent has reported one task completed and another failed, and holds no task
\* any more.
C22_Witness ==
    \E a \in Agents : \E t1, t2 \in TaskIds :
        /\ t1 # t2
        /\ a \in reporters[t1] /\ tasks[t1].status = "completed"
        /\ a \in reporters[t2] /\ tasks[t2].status = "failed"
        /\ current_task[a] = NoTask

-----------------------------------------------------------------------------
(* Ownership as the backend records it (checked under Spec) *)

\* The tasks the backend holds as running and owned by the agent's container.
RunningOwnedBy(a) ==
    {t \in DOMAIN tasks : tasks[t].containerId = a /\ tasks[t].status = "running"}

\* C23: in every backend state at most one task is running with a given agent's
\* container identity as its owner, whatever requests and responses were lost.
C23_SingleOwnership == \A a \in Agents : Cardinality(RunningOwnedBy(a)) <= 1

-----------------------------------------------------------------------------
(* Liveness of the claim loop (checked under SpecLive) *)

PendingUnowned(t) ==
    t \in DOMAIN tasks /\ tasks[t].status = "pending" /\ tasks[t].containerId = NoContainer

ClaimAccepted(t) == accepted[t] # {}

\* C24: while some agent keeps running and requests eventually succeed, every
\* task that is pending and unowned is eventually claimed: some agent's claim
\* update for it is accepted by the backend.
C24_ClaimLiveness == \A t \in TaskIds : PendingUnowned(t) ~> ClaimAccepted(t)

\* Every failure the budget allows has happened, and still every task of the
\* project has been claimed.
C24_Witness ==
    /\ tasks # <<>>
    /\ faults = MaxFaults
    /\ \A t \in DOMAIN tasks : ClaimAccepted(t) /\ ~PendingUnowned(t)

-----------------------------------------------------------------------------
(* Liveness of the terminal report (checked under SpecFair) *)

\* The backend accepted a claim update of the agent for the task.
ClaimedBy(a, t) == \E answered \in BOOLEAN : <<a, answered>> \in accepted[t]

\* The agent has issued a completed or failed update for the task.
ReportedBy(a, t) == a \in reporters[t]

\* C25: when no agent process is terminated and every backend call returns, every
\* task an agent has claimed eventually has a completed or failed update issued
\* for it by that agent.
C25_TerminalReportLiveness ==
    \A a \in Agents : \A t \in TaskIds : ClaimedBy(a, t) ~> ReportedBy(a, t)

====
